---- MODULE Spec2Model ----
(***************************************************************************)
(* The format-file decoder of crates/xetex_format/src/format.rs:           *)
(* parse_impl walks the dump field by field, Format::parse turns its       *)
(* result into the caller's outcome.                                       *)
(*                                                                         *)
(* The input is the environment: every read draws the value found at the   *)
(* cursor from a bounded candidate set, or finds the input exhausted.      *)
(* The candidate sets are the edge values of each field.  To keep the      *)
(* state space a sum and not a product, an input differs from the minimal  *)
(* valid dump inside one block only (focus); the other blocks hold the     *)
(* minimal dump's values.                                                  *)
(***************************************************************************)
EXTENDS Integers, Sequences, FiniteSets

VARIABLES
    focus,        \* the block of the dump whose fields range over their candidates
    pc,           \* the field parse_impl reads next, or done / fail / panic / returned
    pos,          \* bytes of the input consumed so far (the cursor)
    failAt,       \* the field at which the decode failed
    failKind,     \* none / satisfy / range / eof / version / external
    observed,     \* the value of the last scalar read
    serial,       \* the format serial number (selects the engine settings)
    strings_len,  \* strings.len() of the decoded string table
    lo_mem_max,   \* mem.lo_mem_max of the decoded memory
    fmem_ptr,
    font_ptr,
    fa,           \* index of the per-font array read next
    font_start,   \* cursor where the per-font arrays start
    hyph_start_pos, \* cursor where the hyphenation block starts
    hyph_count,
    hyph_i,       \* iterations of the record loop completed
    hyph_j,       \* j of the record being decoded (the slot)
    hyph_next,
    hyph_link,
    hyph_word,
    hyph_list,
    recs,         \* the records decoded so far, <<v, word, list>> each
    cur_v,        \* v of the record being decoded
    trie_max,
    trie_op_ptr,
    trie_used,
    op_start,
    k,
    j,
    claims,       \* the (language, count) pairs the loop accepted, in order
    remainder,    \* bytes left after the footer (parse_impl's returned input)
    outcome,      \* what Format::parse returned: none / Ok / Err
    fmt           \* the Format produced, or NoFormat

ctl == <<pc, pos, failAt, failKind, observed>>
hdrv == <<serial, strings_len, lo_mem_max>>
fontv == <<fmem_ptr, font_ptr, fa, font_start>>
hyphv == <<hyph_start_pos, hyph_count, hyph_i, hyph_j, hyph_next, hyph_link, hyph_word,
           hyph_list, recs, cur_v>>
triev == <<trie_max, trie_op_ptr, trie_used, op_start, k, j, claims>>
outv == <<remainder, outcome, fmt>>
vars == <<focus, ctl, hdrv, fontv, hyphv, triev, outv>>

(***************************************************************************)
(* Bounds of the model.                                                    *)
(***************************************************************************)
MaxStrings == 1    \* strings in the decoded string table
MaxFontPtr == 1    \* largest font pointer among the small candidates
MaxRec == 2        \* hyphenation records the input can hold
MaxTrieMax == 1    \* largest trie_max among the candidates
MaxT == 3          \* largest small trie_op_ptr among the candidates
MaxLang == 2       \* largest small language id among the candidates
MaxTrailing == 1   \* bytes after the footer

(***************************************************************************)
(* Constants of format.rs.                                                 *)
(***************************************************************************)
HEADER_MAGIC == 1414811203
FOOTER_MAGIC == 666
TOO_BIG_CHAR == 65536
HYPH_SIZE == 8191
TRIE_OP_SIZE == 35111
BIGGEST_LANG == 255

(***************************************************************************)
(* Collaborators outside format.rs, from their contracts.                  *)
(***************************************************************************)
MIN_HALFWORD == -268435455
MAX_HALFWORD == 1073741823
KnownSerial == 33

\* Engine::new_for_version: the structural constants of a known serial (the
\* values stand for one engine build; the decoder only compares against them).
Settings(s) ==
    [mem_top |-> 4999999, eqtb_size |-> 8941458, hash_prime |-> 8501,
     hash_base |-> 2228226, eqtb_top |-> 9541458, prim_size |-> 1,
     max_fonts |-> 9000]

KnownVersion(s) == s = KnownSerial

\* parseutils::satisfy_be_i32(expected): the value read must equal expected.
satisfy_be_i32(expected, v) == v = expected

\* parseutils::ranged_be_i32(lo, hi): the value read must lie in lo..hi.
ranged_be_i32(lo, hi, v) == lo <= v /\ v <= hi

\* Bytes an external sub-table decoder consumes for a region of n entries.
RegionBytes(n) == 4 * n

(***************************************************************************)
(* Candidate inputs.                                                       *)
(***************************************************************************)
\* frame: the header up to the control-sequence hash, and the footer.
Blocks == {"frame", "font", "hyph", "trie"}

In(blk, cands, dflt) == IF focus = blk THEN cands ELSE {dflt}

Edge(lo, hi) == {lo - 1, lo, hi, hi + 1}

\* No Format: the value of fmt until parse_impl builds one.
NoFormat == [engine |-> -1, strings |-> -1, mem |-> -1, eqtb |-> "none", cshash |-> "none"]

(***************************************************************************)
(* The cursor: `let (input, x) = parser(input)?`.                          *)
(***************************************************************************)
\* The parser succeeded: n bytes consumed, v the value read.
Goto(next, n, v) ==
    /\ pc' = next
    /\ pos' = pos + n
    /\ observed' = v
    /\ UNCHANGED <<failAt, failKind>>

\* The parser failed: `?` returns the error, nothing is consumed.
Fail(kind, v) ==
    /\ pc' = "fail"
    /\ failAt' = pc
    /\ failKind' = kind
    /\ observed' = v
    /\ pos' = pos

\* The input ends before the field does (a dump truncated inside block blk).
Eof(blk) == focus = blk /\ Fail("eof", observed)

\* be_i32 / be_i64 / count(be_*, n): a read with no check on the value.
Plain(at, next, n, blk, rest) ==
    /\ pc = at
    /\ \/ Goto(next, n, observed)
       \/ Eof(blk)
    /\ UNCHANGED rest

\* parseutils::satisfy_be_i32(expected)(input)?
Satisfy(at, next, expected, cands, blk, rest) ==
    /\ pc = at
    /\ \/ \E v \in cands :
            IF satisfy_be_i32(expected, v) THEN Goto(next, 4, v) ELSE Fail("satisfy", v)
       \/ Eof(blk)
    /\ UNCHANGED rest

(***************************************************************************)
(* vec![0; HYPH_SIZE]: a table of HYPH_SIZE zeros is held as the function  *)
(* of the slots written so far; a slot not written yet reads 0.  Indexing  *)
(* outside 0..HYPH_SIZE-1 panics (InTable guards the first write of a      *)
(* record, the later ones use the same index).                             *)
(***************************************************************************)
ZeroVec == [s \in {} |-> 0]

InTable(s) == s \in 0..(HYPH_SIZE - 1)

At(t, s) == IF s \in DOMAIN t THEN t[s] ELSE 0

Put(t, s, x) == [i \in DOMAIN t \cup {s} |-> IF i = s THEN x ELSE t[i]]

Init ==
    /\ focus \in Blocks
    /\ pc = "header_magic"
    /\ pos = 0
    /\ failAt = "none"
    /\ failKind = "none"
    /\ observed = 0
    /\ serial = 0
    /\ strings_len = 0
    /\ lo_mem_max = 0
    /\ fmem_ptr = 0
    /\ font_ptr = 0
    /\ fa = 0
    /\ font_start = 0
    /\ hyph_start_pos = 0
    /\ hyph_count = 0
    /\ hyph_i = 0
    /\ hyph_j = 0
    /\ hyph_next = 0
    /\ hyph_link = ZeroVec
    /\ hyph_word = ZeroVec
    /\ hyph_list = ZeroVec
    /\ recs = <<>>
    /\ cur_v = 0
    /\ trie_max = 0
    /\ trie_op_ptr = 0
    /\ trie_used = [l \in 0..BIGGEST_LANG |-> 0]
    /\ op_start = [l \in 0..BIGGEST_LANG |-> 0]
    /\ k = BIGGEST_LANG + 1
    /\ j = 0
    /\ claims = <<>>
    /\ remainder = 0
    /\ outcome = "none"
    /\ fmt = NoFormat

afterHdr == <<focus, fontv, hyphv, triev, outv>>

(***************************************************************************)
(* parse_impl: the header.                                                 *)
(***************************************************************************)
\* A header read that takes any 32-bit value.
ReadHeaderUnchecked ==
    /\ pc = "header_magic"
    /\ \E v \in In("frame", {HEADER_MAGIC, HEADER_MAGIC - 1, 0}, HEADER_MAGIC) :
         Goto("serial", 4, v)
    /\ UNCHANGED <<hdrv, afterHdr>>

ReadHeaderMagic ==
    Satisfy("header_magic", "serial", HEADER_MAGIC,
            In("frame", {HEADER_MAGIC, HEADER_MAGIC - 1, 0}, HEADER_MAGIC),
            "frame", <<hdrv, afterHdr>>)

\* be_i32, then Engine::new_for_version(serial).
ReadSerial ==
    /\ pc = "serial"
    /\ \/ \E v \in In("frame", {KnownSerial, KnownSerial + 1}, KnownSerial) :
            /\ IF KnownVersion(v) THEN Goto("hash_high", 4, v) ELSE Fail("version", v)
            /\ serial' = v
       \/ Eof("frame") /\ UNCHANGED serial
    /\ UNCHANGED <<strings_len, lo_mem_max, afterHdr>>

ReadHashHigh == Plain("hash_high", "mem_top", 4, "frame", <<hdrv, afterHdr>>)

ReadMemTop ==
    Satisfy("mem_top", "eqtb_size", Settings(serial).mem_top,
            In("frame", {Settings(serial).mem_top, Settings(serial).mem_top + 1},
               Settings(serial).mem_top),
            "frame", <<hdrv, afterHdr>>)

ReadEqtbSize ==
    Satisfy("eqtb_size", "hash_prime", Settings(serial).eqtb_size,
            In("frame", {Settings(serial).eqtb_size, Settings(serial).eqtb_size - 1},
               Settings(serial).eqtb_size),
            "frame", <<hdrv, afterHdr>>)

ReadHashPrime ==
    Satisfy("hash_prime", "hyph_prime", Settings(serial).hash_prime,
            In("frame", {Settings(serial).hash_prime, 0}, Settings(serial).hash_prime),
            "frame", <<hdrv, afterHdr>>)

ReadHyphPrime == Plain("hyph_prime", "strings", 4, "frame", <<hdrv, afterHdr>>)

\* stringtable::StringTable::parse(input)?
ParseStrings ==
    /\ pc = "strings"
    /\ \/ \E n \in In("hyph", {0, MaxStrings}, 0) :
            /\ Goto("mem", RegionBytes(n), observed)
            /\ strings_len' = n
       \/ Fail("external", observed) /\ UNCHANGED strings_len
    /\ UNCHANGED <<serial, lo_mem_max, afterHdr>>

\* mem::Memory::parse(input, &engine)?
ParseMem ==
    /\ pc = "mem"
    /\ \/ \E m \in In("font", {0, 1}, 0) :
            /\ Goto("eqtb", RegionBytes(m), observed)
            /\ lo_mem_max' = m
       \/ Fail("external", observed) /\ UNCHANGED lo_mem_max
    /\ UNCHANGED <<serial, strings_len, afterHdr>>

\* eqtb::EquivalenciesTable::parse(input, &engine, hash_high)?
ParseEqtb ==
    /\ pc = "eqtb"
    /\ \/ \E n \in In("frame", {0, 1}, 0) : Goto("par_loc", RegionBytes(n), observed)
       \/ Fail("external", observed)
    /\ UNCHANGED <<hdrv, afterHdr>>

\* parseutils::ranged_be_i32(lo, hi)(input)?
Ranged(at, next, lo, hi, cands, blk, rest) ==
    /\ pc = at
    /\ \/ \E v \in cands :
            IF ranged_be_i32(lo, hi, v) THEN Goto(next, 4, v) ELSE Fail("range", v)
       \/ Eof(blk)
    /\ UNCHANGED rest

ReadParLoc ==
    Ranged("par_loc", "write_loc", Settings(serial).hash_base, Settings(serial).eqtb_top,
           In("frame", Edge(Settings(serial).hash_base, Settings(serial).eqtb_top),
              Settings(serial).hash_base),
           "frame", <<hdrv, afterHdr>>)

ReadWriteLoc ==
    Ranged("write_loc", "prims", Settings(serial).hash_base, Settings(serial).eqtb_top,
           In("frame", Edge(Settings(serial).hash_base, Settings(serial).eqtb_top),
              Settings(serial).hash_base),
           "frame", <<hdrv, afterHdr>>)

\* count(be_i64, prim_size + 1)
ReadPrims ==
    Plain("prims", "cshash", 8 * (Settings(serial).prim_size + 1), "frame", <<hdrv, afterHdr>>)

\* cshash::ControlSeqHash::parse(input, &engine, hash_high)?
ParseCshash ==
    /\ pc = "cshash"
    /\ \/ \E n \in In("frame", {0, 1}, 0) : Goto("fmem_ptr", RegionBytes(n), observed)
       \/ Fail("external", observed)
    /\ UNCHANGED <<hdrv, afterHdr>>

(***************************************************************************)
(* parse_impl: the font block.                                             *)
(***************************************************************************)
\* A font memory pointer bounded by the largest 32-bit value instead.
FmemPtrRangeWide == [lo |-> 7, hi |-> 2147483647]

\* The bounds of the font memory pointer: ranged_be_i32(7, 147483647).
FmemPtrRange == [lo |-> 7, hi |-> 147483647]

ReadFmemPtr ==
    /\ pc = "fmem_ptr"
    /\ \/ \E v \in In("font", {6, 7, 147483647, 147483648}, 7) :
            IF ranged_be_i32(FmemPtrRange.lo, FmemPtrRange.hi, v)
            THEN Goto("font_info", 4, v) /\ fmem_ptr' = v
            ELSE Fail("range", v) /\ fmem_ptr' = fmem_ptr
       \/ Eof("font") /\ UNCHANGED fmem_ptr
    /\ UNCHANGED <<focus, hdrv, font_ptr, fa, font_start, hyphv, triev, outv>>

\* count(be_i64, fmem_ptr as usize)
ReadFontInfo ==
    Plain("font_info", "font_ptr", 8 * fmem_ptr, "font", <<focus, hdrv, fontv, hyphv, triev, outv>>)

n_fonts == font_ptr + 1

\* ranged_be_i32(0, max_fonts); the per-font arrays start right after it.
ReadFontPtr ==
    /\ pc = "font_ptr"
    /\ \/ \E v \in In("font", (-1..MaxFontPtr) \cup
                              {Settings(serial).max_fonts, Settings(serial).max_fonts + 1}, 0) :
            IF ranged_be_i32(0, Settings(serial).max_fonts, v)
            THEN /\ Goto("font_array", 4, v)
                 /\ font_ptr' = v
                 /\ fa' = 1
                 /\ font_start' = pos + 4
            ELSE Fail("range", v) /\ UNCHANGED <<font_ptr, fa, font_start>>
       \/ Eof("font") /\ UNCHANGED <<font_ptr, fa, font_start>>
    /\ UNCHANGED <<focus, hdrv, fmem_ptr, hyphv, triev, outv>>

\* A font block with six table-base arrays.
FontArraysSix ==
    << [name |-> "font_check",       width |-> 8, range |-> "none"],
       [name |-> "font_size",        width |-> 4, range |-> "none"],
       [name |-> "font_dsize",       width |-> 4, range |-> "none"],
       [name |-> "font_params",      width |-> 4, range |-> "halfword"],
       [name |-> "hyphen_char",      width |-> 4, range |-> "none"],
       [name |-> "skew_char",        width |-> 4, range |-> "none"],
       [name |-> "font_name",        width |-> 4, range |-> "none"],
       [name |-> "font_area",        width |-> 4, range |-> "none"],
       [name |-> "font_bc",          width |-> 2, range |-> "none"],
       [name |-> "font_ec",          width |-> 2, range |-> "none"],
       [name |-> "char_base",        width |-> 4, range |-> "none"],
       [name |-> "width_base",       width |-> 4, range |-> "none"],
       [name |-> "height_base",      width |-> 4, range |-> "none"],
       [name |-> "depth_base",       width |-> 4, range |-> "none"],
       [name |-> "italic_base",      width |-> 4, range |-> "none"],
       [name |-> "lig_kern_base",    width |-> 4, range |-> "none"],
       [name |-> "font_glue",        width |-> 4, range |-> "glue"],
       [name |-> "bchar_label",      width |-> 4, range |-> "bchar_label"],
       [name |-> "font_bchar",       width |-> 4, range |-> "bchar"],
       [name |-> "font_false_bchar", width |-> 4, range |-> "bchar"] >>

\* The per-font arrays in the order parse_impl reads them: the element width in
\* bytes and the range check applied to each element.
FontArrays ==
    << [name |-> "font_check",       width |-> 8, range |-> "none"],
       [name |-> "font_size",        width |-> 4, range |-> "none"],
       [name |-> "font_dsize",       width |-> 4, range |-> "none"],
       [name |-> "font_params",      width |-> 4, range |-> "halfword"],
       [name |-> "hyphen_char",      width |-> 4, range |-> "none"],
       [name |-> "skew_char",        width |-> 4, range |-> "none"],
       [name |-> "font_name",        width |-> 4, range |-> "none"],
       [name |-> "font_area",        width |-> 4, range |-> "none"],
       [name |-> "font_bc",          width |-> 2, range |-> "none"],
       [name |-> "font_ec",          width |-> 2, range |-> "none"],
       [name |-> "char_base",        width |-> 4, range |-> "none"],
       [name |-> "width_base",       width |-> 4, range |-> "none"],
       [name |-> "height_base",      width |-> 4, range |-> "none"],
       [name |-> "depth_base",       width |-> 4, range |-> "none"],
       [name |-> "italic_base",      width |-> 4, range |-> "none"],
       [name |-> "lig_kern_base",    width |-> 4, range |-> "none"],
       [name |-> "kern_base",        width |-> 4, range |-> "none"],
       [name |-> "exten_base",       width |-> 4, range |-> "none"],
       [name |-> "param_base",       width |-> 4, range |-> "none"],
       [name |-> "font_glue",        width |-> 4, range |-> "glue"],
       [name |-> "bchar_label",      width |-> 4, range |-> "bchar_label"],
       [name |-> "font_bchar",       width |-> 4, range |-> "bchar"],
       [name |-> "font_false_bchar", width |-> 4, range |-> "bchar"] >>

\* The inclusive bounds of each range check of the font block.
FontLo(r) == IF r \in {"halfword", "glue"} THEN MIN_HALFWORD ELSE 0

FontHi(r) ==
    CASE r = "halfword"    -> MAX_HALFWORD
      [] r = "glue"        -> lo_mem_max
      [] r = "bchar_label" -> fmem_ptr - 1
      [] r = "bchar"       -> TOO_BIG_CHAR
      [] OTHER             -> 0

\* count(parser, n_fonts): n_fonts elements, the first element out of range fails
\* the array.  The candidate arrays hold one value in every element.
ReadFontArray ==
    /\ pc = "font_array"
    /\ LET a == FontArrays[fa]
           next == IF fa = Len(FontArrays) THEN "hyph_count" ELSE "font_array"
       IN  \/ \E v \in IF a.range = "none" THEN {0}
                       ELSE In("font", Edge(FontLo(a.range), FontHi(a.range)), 0) :
                 IF a.range = "none"
                    \/ \A e \in 1..n_fonts : ranged_be_i32(FontLo(a.range), FontHi(a.range), v)
                 THEN Goto(next, a.width * n_fonts, v) /\ fa' = fa + 1
                 ELSE Fail("range", v) /\ fa' = fa
           \/ Eof("font") /\ fa' = fa
    /\ UNCHANGED <<focus, hdrv, fmem_ptr, font_ptr, font_start, hyphv, triev, outv>>

(***************************************************************************)
(* parse_impl: the hyphenation exceptions.                                 *)
(***************************************************************************)
\* be_i32 with no check: the exception count.
ReadHyphCount ==
    /\ pc = "hyph_count"
    /\ \/ \E v \in In("hyph", -1..(MaxRec + 1), 0) :
            /\ Goto("hyph_next", 4, v)
            /\ hyph_count' = v
            /\ hyph_start_pos' = pos
       \/ Eof("hyph") /\ UNCHANGED <<hyph_count, hyph_start_pos>>
    /\ UNCHANGED <<focus, hdrv, fontv, hyph_i, hyph_j, hyph_next, hyph_link, hyph_word,
                   hyph_list, recs, cur_v, triev, outv>>

\* A record loop that takes the count as unsigned: a negative count is a huge one.
HyphLoopUnsigned(i) ==
    IF i < (IF hyph_count < 0 THEN 2147483647 ELSE hyph_count) THEN "hyph_v" ELSE "trie_max"

\* `for _ in 0..hyph_count`: the loop runs while fewer than hyph_count
\* iterations are done (never, for a count <= 0).
HyphLoop(i) == IF i < hyph_count THEN "hyph_v" ELSE "trie_max"

\* A decoder that goes from the count straight to the records.
SkipHyphNext ==
    /\ pc = "hyph_next"
    /\ Goto(HyphLoop(0), 0, observed)
    /\ UNCHANGED <<focus, hdrv, fontv, hyphv, triev, outv>>

\* be_i32 read into _hyph_next and dropped; then the record loop starts.
ReadHyphNext ==
    /\ pc = "hyph_next"
    /\ \/ Goto(HyphLoop(0), 4, observed)
       \/ Eof("hyph")
    /\ UNCHANGED <<focus, hdrv, fontv, hyphv, triev, outv>>

\* The unpacking of a record's first field v.
HyphNextOf(v) == IF v > 65535 THEN v \div 65536 ELSE 0

HyphSlotOf(v) == IF v > 65535 THEN v - HyphNextOf(v) * 65536 ELSE v

\* A link stored in eight bits.
AsU8(x) == x % 256

\* `hyph_next as u16`
AsU16(x) == x % 65536

\* The candidate values of v: both branches of the unpacking, slots and links on
\* both sides of HYPH_SIZE, and a negative value.
VCands ==
    {-1, 5, HYPH_SIZE, 65535,
     2 * 65536 + 5,
     (HYPH_SIZE + 1) * 65536 + (HYPH_SIZE - 1),
     2 * 65536 + HYPH_SIZE,
     32767 * 65536 + 65535}

\* be_i32 of v, the unpacking, and hyph_link[j as usize] = hyph_next as u16.
\* Indexing a Vec of HYPH_SIZE elements outside 0..HYPH_SIZE-1 panics.
ReadHyphV ==
    /\ pc = "hyph_v"
    /\ \/ /\ hyph_i < MaxRec
          /\ \E v \in In("hyph", VCands, 0) :
               /\ cur_v' = v
               /\ hyph_next' = HyphNextOf(v)
               /\ hyph_j' = HyphSlotOf(v)
               /\ IF InTable(HyphSlotOf(v))
                  THEN /\ hyph_link' = Put(hyph_link, HyphSlotOf(v), AsU16(HyphNextOf(v)))
                       /\ Goto("hyph_w", 4, v)
                  ELSE /\ pc' = "panic"
                       /\ failAt' = pc
                       /\ failKind' = "index"
                       /\ observed' = v
                       /\ pos' = pos + 4
                       /\ UNCHANGED hyph_link
       \/ Eof("hyph") /\ UNCHANGED <<cur_v, hyph_next, hyph_j, hyph_link>>
    /\ UNCHANGED <<focus, hdrv, fontv, hyph_start_pos, hyph_count, hyph_i, hyph_word,
                   hyph_list, recs, triev, outv>>

max_word == strings_len + TOO_BIG_CHAR - 1

\* ranged_be_i32(0, max_word), then hyph_word[j as usize] = w.
ReadHyphW ==
    /\ pc = "hyph_w"
    /\ \/ \E w \in In("hyph", {-1, 0, max_word, max_word + 1}, 0) :
            IF ranged_be_i32(0, max_word, w)
            THEN /\ Goto("hyph_l", 4, w)
                 /\ hyph_word' = Put(hyph_word, hyph_j, w)
            ELSE Fail("range", w) /\ UNCHANGED hyph_word
       \/ Eof("hyph") /\ UNCHANGED hyph_word
    /\ UNCHANGED <<focus, hdrv, fontv, hyph_start_pos, hyph_count, hyph_i, hyph_j,
                   hyph_next, hyph_link, hyph_list, recs, cur_v, triev, outv>>

\* ranged_be_i32(MIN_HALFWORD, MAX_HALFWORD), then hyph_list[j as usize] = l;
\* the iteration ends.
ReadHyphL ==
    /\ pc = "hyph_l"
    /\ \/ \E l \in In("hyph", {MIN_HALFWORD - 1, MIN_HALFWORD, MAX_HALFWORD + 1}, 0) :
            IF ranged_be_i32(MIN_HALFWORD, MAX_HALFWORD, l)
            THEN /\ Goto(HyphLoop(hyph_i + 1), 4, l)
                 /\ hyph_list' = Put(hyph_list, hyph_j, l)
                 /\ hyph_i' = hyph_i + 1
                 /\ recs' = Append(recs, <<cur_v, At(hyph_word, hyph_j), l>>)
            ELSE Fail("range", l) /\ UNCHANGED <<hyph_list, hyph_i, recs>>
       \/ Eof("hyph") /\ UNCHANGED <<hyph_list, hyph_i, recs>>
    /\ UNCHANGED <<focus, hdrv, fontv, hyph_start_pos, hyph_count, hyph_j, hyph_next,
                   hyph_link, hyph_word, cur_v, triev, outv>>

(***************************************************************************)
(* parse_impl: the trie.                                                   *)
(***************************************************************************)
trieRest == <<trie_op_ptr, trie_used, op_start, k, j, claims>>

ReadTrieMax ==
    /\ pc = "trie_max"
    /\ \/ \E v \in In("trie", {-1, 0, MaxTrieMax}, 0) :
            Goto("hyph_start", 4, v) /\ trie_max' = v
       \/ Eof("trie") /\ UNCHANGED trie_max
    /\ UNCHANGED <<focus, hdrv, fontv, hyphv, trieRest, outv>>

ReadHyphStart ==
    Ranged("hyph_start", "trie_trl", 0, trie_max, In("trie", Edge(0, trie_max), 0),
           "trie", <<focus, hdrv, fontv, hyphv, triev, outv>>)

n_trie == trie_max + 1

ReadTrieTrl ==
    Plain("trie_trl", "trie_tro", 4 * n_trie, "trie", <<focus, hdrv, fontv, hyphv, triev, outv>>)

ReadTrieTro ==
    Plain("trie_tro", "trie_trc", 4 * n_trie, "trie", <<focus, hdrv, fontv, hyphv, triev, outv>>)

ReadTrieTrc ==
    Plain("trie_trc", "max_hyph_char", 2 * n_trie, "trie", <<focus, hdrv, fontv, hyphv, triev, outv>>)

ReadMaxHyphChar ==
    Plain("max_hyph_char", "trie_op_ptr", 4, "trie", <<focus, hdrv, fontv, hyphv, triev, outv>>)

ReadTrieOpPtr ==
    /\ pc = "trie_op_ptr"
    /\ \/ \E v \in In("trie", (-1..MaxT) \cup {TRIE_OP_SIZE, TRIE_OP_SIZE + 1}, 0) :
            IF ranged_be_i32(0, TRIE_OP_SIZE, v)
            THEN Goto("hyf_distance", 4, v) /\ trie_op_ptr' = v
            ELSE Fail("range", v) /\ UNCHANGED trie_op_ptr
       \/ Eof("trie") /\ UNCHANGED trie_op_ptr
    /\ UNCHANGED <<focus, hdrv, fontv, hyphv, trie_max, trie_used, op_start, k, j, claims, outv>>

ReadHyfDistance ==
    Plain("hyf_distance", "hyf_num", 2 * trie_op_ptr,
          "trie", <<focus, hdrv, fontv, hyphv, triev, outv>>)

ReadHyfNum ==
    Plain("hyf_num", "hyf_next", 2 * trie_op_ptr, "trie", <<focus, hdrv, fontv, hyphv, triev, outv>>)

\* `while j > 0`
TrieLoop(budget) == IF budget > 0 THEN "trie_lang" ELSE "footer"

\* count(be_u16, trie_op_ptr), then the loop's state: k = BIGGEST_LANG + 1,
\* j = trie_op_ptr, trie_used and op_start all zero.
ReadHyfNext ==
    /\ pc = "hyf_next"
    /\ \/ /\ Goto(TrieLoop(trie_op_ptr), 2 * trie_op_ptr, observed)
          /\ k' = BIGGEST_LANG + 1
          /\ j' = trie_op_ptr
          /\ trie_used' = [l \in 0..BIGGEST_LANG |-> 0]
          /\ op_start' = [l \in 0..BIGGEST_LANG |-> 0]
       \/ Eof("trie") /\ UNCHANGED <<k, j, trie_used, op_start>>
    /\ UNCHANGED <<focus, hdrv, fontv, hyphv, trie_max, trie_op_ptr, claims, outv>>

\* A language id bounded by k itself.
LangHiSame(kk) == kk

\* The upper bound of the language id: k as i32 - 1.
LangHi(kk) == kk - 1

\* ranged_be_i32(0, k as i32 - 1), then k = new_k.
ReadTrieLang ==
    /\ pc = "trie_lang"
    /\ \/ \E v \in In("trie", (-1..MaxLang) \cup {BIGGEST_LANG, BIGGEST_LANG + 1}, 0) :
            IF ranged_be_i32(0, LangHi(k), v)
            THEN Goto("trie_count", 4, v) /\ k' = v
            ELSE Fail("range", v) /\ k' = k
       \/ Eof("trie") /\ k' = k
    /\ UNCHANGED <<focus, hdrv, fontv, hyphv, trie_max, trie_op_ptr, trie_used, op_start,
                   j, claims, outv>>

\* The upper bound of a language's count: the budget left.
CountHi(budget) == budget

\* op_start set before the budget is decremented.
OpStartStale(budget, u) == budget

\* j -= u; op_start[k] = j: the segment starts at the budget left after the claim.
OpStartOf(budget, u) == budget - u

\* ranged_be_i32(1, j), then trie_used[k] = u; j -= u; op_start[k] = j.
ReadTrieCount ==
    /\ pc = "trie_count"
    /\ \/ \E u \in In("trie", {0, 1, j - 1, j, j + 1}, 0) :
            IF ranged_be_i32(1, CountHi(j), u)
            THEN /\ Goto(TrieLoop(j - u), 4, u)
                 /\ trie_used' = [trie_used EXCEPT ![k] = u]
                 /\ j' = j - u
                 /\ op_start' = [op_start EXCEPT ![k] = OpStartOf(j, u)]
                 /\ claims' = Append(claims, <<k, u>>)
            ELSE Fail("range", u) /\ UNCHANGED <<trie_used, j, op_start, claims>>
       \/ Eof("trie") /\ UNCHANGED <<trie_used, j, op_start, claims>>
    /\ UNCHANGED <<focus, hdrv, fontv, hyphv, trie_max, trie_op_ptr, k, outv>>

(***************************************************************************)
(* parse_impl: the footer and the result; Format::parse.                   *)
(***************************************************************************)
\* The Format parse_impl assembles from the five retained parts.
Assembled ==
    [engine |-> serial, strings |-> strings_len, mem |-> lo_mem_max,
     eqtb |-> "eqtb", cshash |-> "cshash"]

\* satisfy_be_i32(FOOTER_MAGIC), then Ok((input, fmt)): the input left is returned
\* unread, whatever its length.
ReadFooter ==
    /\ pc = "footer"
    /\ \/ \E v \in In("frame", {FOOTER_MAGIC, FOOTER_MAGIC + 1}, FOOTER_MAGIC) :
            IF satisfy_be_i32(FOOTER_MAGIC, v)
            THEN /\ Goto("done", 4, v)
                 /\ \E r \in 0..MaxTrailing : remainder' = r
                 /\ fmt' = Assembled
            ELSE Fail("satisfy", v) /\ UNCHANGED <<remainder, fmt>>
       \/ Eof("frame") /\ UNCHANGED <<remainder, fmt>>
    /\ UNCHANGED <<focus, hdrv, fontv, hyphv, triev, outcome>>

\* A Format::parse that wants the whole input consumed.
ParseResultStrict(implOk, rem) == IF implOk /\ rem = 0 THEN "Ok" ELSE "Err"

\* Format::parse's match: Ok((_remainder, result)) => Ok(result), every Err => bail!.
ParseResult(implOk, rem) == IF implOk THEN "Ok" ELSE "Err"

Parse ==
    /\ pc \in {"done", "fail"}
    /\ pc' = "returned"
    /\ outcome' = ParseResult(pc = "done", remainder)
    /\ fmt' = IF ParseResult(pc = "done", remainder) = "Ok" THEN fmt ELSE NoFormat
    /\ UNCHANGED <<focus, pos, failAt, failKind, observed, hdrv, fontv, hyphv, triev,
                   remainder>>

Next ==
    \/ ReadHeaderMagic
    \/ ReadSerial
    \/ ReadHashHigh
    \/ ReadMemTop
    \/ ReadEqtbSize
    \/ ReadHashPrime
    \/ ReadHyphPrime
    \/ ParseStrings
    \/ ParseMem
    \/ ParseEqtb
    \/ ReadParLoc
    \/ ReadWriteLoc
    \/ ReadPrims
    \/ ParseCshash
    \/ ReadFmemPtr
    \/ ReadFontInfo
    \/ ReadFontPtr
    \/ ReadFontArray
    \/ ReadHyphCount
    \/ ReadHyphNext
    \/ ReadHyphV
    \/ ReadHyphW
    \/ ReadHyphL
    \/ ReadTrieMax
    \/ ReadHyphStart
    \/ ReadTrieTrl
    \/ ReadTrieTro
    \/ ReadTrieTrc
    \/ ReadMaxHyphChar
    \/ ReadTrieOpPtr
    \/ ReadHyfDistance
    \/ ReadHyfNum
    \/ ReadHyfNext
    \/ ReadTrieLang
    \/ ReadTrieCount
    \/ ReadFooter
    \/ Parse

Spec == Init /\ [][Next]_vars

(***************************************************************************)
(* The properties.                                                         *)
(***************************************************************************)
Slots == 0..(HYPH_SIZE - 1)
Langs == 0..BIGGEST_LANG
Claimed == {claims[i][1] : i \in 1..Len(claims)}
MaxOf(S) == CHOOSE x \in S : \A y \in S : y <= x

\* The trie loop was left by its condition (j > 0 false), not by an error.
TrieLoopExited == pc \in {"footer", "done"} \/ (pc = "returned" /\ failKind = "none")

\* C1: when the trie loop has accepted every claim, trie_used holds each claimed
\* language's count, the claimed segments op_start..op_start+trie_used-1 are
\* pairwise disjoint and contiguous from 0 to T-1, and a language never claimed
\* keeps trie_used = 0 and op_start = 0.
C1_TrieOpIndex ==
    TrieLoopExited =>
        /\ \A i \in 1..Len(claims) : trie_used[claims[i][1]] = claims[i][2]
        /\ \A a \in Claimed : \A b \in Claimed :
             a # b => \/ op_start[a] + trie_used[a] - 1 < op_start[b]
                      \/ op_start[b] + trie_used[b] - 1 < op_start[a]
        /\ trie_op_ptr > 0 => \E l \in Claimed : op_start[l] = 0
        /\ \A l \in Claimed :
             /\ op_start[l] >= 0
             /\ trie_used[l] >= 1
             /\ \/ op_start[l] + trie_used[l] = trie_op_ptr
                \/ \E m \in Claimed : op_start[m] = op_start[l] + trie_used[l]
        /\ \A l \in Langs \ Claimed : trie_used[l] = 0 /\ op_start[l] = 0

C1_Witness ==
    /\ pc = "footer"
    /\ Len(claims) = 3
    /\ trie_op_ptr = 3

\* The unpacking as the format states it: the high half is the link, the low
\* half the slot, for a value above 0xFFFF.
PackedNext(v) == IF v >= 65536 THEN (v - (v % 65536)) \div 65536 ELSE 0
PackedSlot(v) == IF v >= 65536 THEN v % 65536 ELSE v
NamedBy(s) == {i \in 1..Len(recs) : PackedSlot(recs[i][1]) = s}

\* C2: after the record loop every slot a record names holds the link, word and
\* list of the last record naming it, every other slot holds zeros, and
\* v = 0x00020005 gives link[5] = 2.
C2_HyphRoundTrip ==
    pc = "trie_max" =>
        /\ \A s \in Slots :
             IF NamedBy(s) = {}
             THEN At(hyph_link, s) = 0 /\ At(hyph_word, s) = 0 /\ At(hyph_list, s) = 0
             ELSE LET r == recs[MaxOf(NamedBy(s))]
                  IN  /\ At(hyph_link, s) = PackedNext(r[1])
                      /\ At(hyph_word, s) = r[2]
                      /\ At(hyph_list, s) = r[3]
        /\ (Len(recs) > 0 /\ recs[Len(recs)][1] = 131077) => At(hyph_link, 5) = 2

C2_Witness ==
    /\ pc = "trie_max"
    /\ Len(recs) = 2
    /\ recs[1][1] = 5
    /\ recs[2][1] = 131077
    /\ recs[1][2] # recs[2][2]
    /\ At(hyph_link, 5) = 2

\* C3: the slot the decoder indexes link/word/list with lies in 0..HYPH_SIZE-1,
\* every link it stores is a slot index in 0..HYPH_SIZE-1, and a record that
\* would break this ends the decode with an error, never with an access
\* outside the tables.
C3_HyphSlotValid ==
    /\ pc # "panic"
    /\ pc \in {"hyph_w", "hyph_l"} =>
         /\ hyph_j \in Slots
         /\ At(hyph_link, hyph_j) \in Slots

\* C4 as claimed: the records follow the count directly, the block is
\* 4 + 12*n bytes long.
C4_Original ==
    (pc = "trie_max" /\ hyph_count >= 0) => pos - hyph_start_pos = 4 + 12 * hyph_count

\* C4: the block is the 32-bit count, one further 32-bit word, then count
\* records of three 32-bit fields: 8 + 12*n bytes for a count n >= 0, and
\* trie_max is the next word.
C4_HyphBlockLayout ==
    /\ (pc = "trie_max" /\ hyph_count >= 0) =>
          /\ hyph_i = hyph_count
          /\ pos - hyph_start_pos = 8 + 12 * hyph_count
    /\ pc = "hyph_v" => pos - hyph_start_pos = 8 + 12 * hyph_i
    /\ pc = "hyph_w" => pos - hyph_start_pos = 12 + 12 * hyph_i
    /\ pc = "hyph_l" => pos - hyph_start_pos = 16 + 12 * hyph_i

C4_Witness ==
    /\ pc = "trie_max"
    /\ hyph_count = 2
    /\ pos - hyph_start_pos = 32

\* C5 as claimed: six table-base arrays, 80 bytes per font.
C5_Original == pc = "hyph_count" => pos - font_start = 80 * n_fonts

\* The element widths of the per-font arrays: checksum, two sizes, parameter
\* count, hyphen and skew character, name and area, first and last character,
\* nine table bases, glue, boundary label, two boundary characters.
FontWidths == <<8, 4, 4, 4, 4, 4, 4, 4, 2, 2, 4, 4, 4, 4, 4, 4, 4, 4, 4, 4, 4, 4, 4>>
RECURSIVE SumTo(_, _)
SumTo(w, n) == IF n = 0 THEN 0 ELSE w[n] + SumTo(w, n - 1)

\* C5: the per-font arrays are read in the fixed order, n_fonts elements each,
\* with nine table-base arrays: 92 bytes per font before the hyphenation block.
C5_FontBlockLayout ==
    /\ pc = "font_array" =>
          /\ fa \in 1..Len(FontWidths)
          /\ FontArrays[fa].width = FontWidths[fa]
          /\ pos - font_start = n_fonts * SumTo(FontWidths, fa - 1)
    /\ pc = "hyph_count" => pos - font_start = 92 * n_fonts

C5_Witness ==
    /\ pc = "hyph_count"
    /\ font_ptr = 1
    /\ pos - font_start = 184

\* C6 as claimed: every value from 7 up to 2^31-1 is accepted.
C6_Original ==
    (pc = "fail" /\ failAt = "fmem_ptr" /\ failKind = "range") => observed < 7

\* C6: the font memory pointer is accepted exactly when it lies in
\* 7..147483647; a value outside fails with a range violation.
C6_FmemPtrBound ==
    /\ pc = "font_info" => (7 <= fmem_ptr /\ fmem_ptr <= 147483647)
    /\ (pc = "fail" /\ failAt = "fmem_ptr" /\ failKind = "range") =>
          (observed < 7 \/ observed > 147483647)

C6_Witness ==
    /\ pc = "fail"
    /\ failAt = "fmem_ptr"
    /\ failKind = "range"
    /\ observed = 147483648

\* C7: when parse_impl succeeds, Format::parse returns Ok with the five parts
\* decoded, however many bytes follow the footer.
C7_TrailingBytes ==
    (pc = "returned" /\ failKind = "none") =>
        /\ outcome = "Ok"
        /\ fmt = Assembled
        /\ fmt # NoFormat

C7_Witness ==
    /\ pc = "returned"
    /\ outcome = "Ok"
    /\ remainder > 0

ExactFields == {"header_magic", "mem_top", "eqtb_size", "hash_prime", "footer"}

Expected(f) ==
    CASE f = "header_magic" -> 1414811203
      [] f = "mem_top"      -> Settings(serial).mem_top
      [] f = "eqtb_size"    -> Settings(serial).eqtb_size
      [] f = "hash_prime"   -> Settings(serial).hash_prime
      [] f = "footer"       -> 666

\* C8: an exact-match field holding another value than the expected one fails
\* the decode at that field (nothing more is consumed; the header at offset 0),
\* the caller gets one Err and no Format.
C8_ExactMatch ==
    /\ [][(pc \in ExactFields /\ pc' # pc /\ failKind' # "eof") =>
            \/ observed' = Expected(pc) /\ pc' # "fail" /\ pos' = pos + 4
            \/ /\ observed' # Expected(pc)
               /\ pc' = "fail"
               /\ failAt' = pc
               /\ failKind' = "satisfy"
               /\ pos' = pos]_vars
    /\ []((failKind = "satisfy" /\ failAt = "header_magic") => pos = 0)
    /\ []((failKind = "satisfy" /\ failAt = "mem_top") => pos = 12)
    /\ []((failKind = "satisfy" /\ failAt = "eqtb_size") => pos = 16)
    /\ []((failKind = "satisfy" /\ failAt = "hash_prime") => pos = 20)
    /\ []((failKind = "satisfy") => (failAt \in ExactFields /\ fmt = NoFormat))
    /\ []((pc = "returned" /\ failKind = "satisfy") => (outcome = "Err" /\ fmt = NoFormat))

C8_Witness ==
    /\ pc = "returned"
    /\ failKind = "satisfy"
    /\ failAt = "header_magic"
    /\ observed = 1414811202
    /\ outcome = "Err"

MinOf(a, b) == IF a < b THEN a ELSE b

\* C9: the trie loop runs at most min(trie_op_ptr, 256) times; the accepted
\* language ids strictly decrease; every iteration lowers the budget j, which
\* stays >= 0; the loop is left normally only with j = 0; and a positive
\* budget with no language id left (k = 0) fails the decode.
C9_TrieLoopProgress ==
    /\ [](/\ Len(claims) <= MinOf(trie_op_ptr, 256)
          /\ \A a \in 1..Len(claims) : \A b \in 1..Len(claims) :
               a < b => claims[a][1] > claims[b][1]
          /\ j >= 0
          /\ TrieLoopExited => j = 0)
    /\ [][(pc = "trie_count" /\ pc' \in {"trie_lang", "footer"}) =>
            (j' < j /\ j' >= 0 /\ (pc' = "footer" <=> j' = 0))]_vars
    /\ [][(pc = "trie_lang" /\ k = 0 /\ pc' # pc) => pc' = "fail"]_vars

C9_Witness ==
    /\ pc = "fail"
    /\ failAt = "trie_lang"
    /\ failKind = "range"
    /\ k = 0
    /\ j > 0
    /\ Len(claims) = 2

\* C10: the exception count is read unchecked; a negative count runs the
\* record loop zero times, leaves link/word/list all zero and goes on to the
\* trie block; a count above the records present fails only when the input
\* runs out.
C10_UncheckedCount ==
    /\ (pc = "fail" /\ failAt = "hyph_count") => failKind = "eof"
    /\ pc = "hyph_next" => hyph_count = observed
    /\ pc \in {"hyph_v", "hyph_w", "hyph_l"} => (0 <= hyph_i /\ hyph_i < hyph_count)
    /\ (pc = "trie_max" /\ hyph_count < 0) =>
          /\ hyph_i = 0
          /\ recs = <<>>
          /\ \A s \in Slots : At(hyph_link, s) = 0 /\ At(hyph_word, s) = 0 /\ At(hyph_list, s) = 0
    /\ (pc = "fail" /\ failAt = "hyph_v") => (failKind = "eof" /\ hyph_i < hyph_count)
    /\ pc = "trie_max" => hyph_i = (IF hyph_count > 0 THEN hyph_count ELSE 0)

C10_Witness ==
    /\ pc = "trie_max"
    /\ hyph_count < 0
    /\ pos - hyph_start_pos = 8
====
